---- MODULE Spec2Model ----
(***************************************************************************)
(* serdeconv: conversion functions and traits between TOML / JSON /        *)
(* MessagePack and serde values (src/src/convert_*.rs, error.rs,           *)
(* traits.rs).                                                             *)
(*                                                                         *)
(* Text and bytes are sequences of tokens (strings).  "xFF" is a byte that *)
(* is not valid UTF-8.  The external calls of the crate (std::fs, std::io, *)
(* toml, serde_json, rmp_serde) are modelled at the call site by their     *)
(* documented behaviour.                                                   *)
(***************************************************************************)
EXTENDS Integers, Sequences, FiniteSets, TLC

VARIABLES fs, impls, last

vars == <<fs, impls, last>>

\* ------------------------------------------------------------------ bounds
MaxStr == 1
MaxBaz == 1
MaxCut == 4
FaultAt == 1

\* ------------------------------------------------------------------ helpers
NoFault == 0 - 1

Min(a, b) == IF a < b THEN a ELSE b

Prefix(s, k) == SubSeq(s, 1, Min(k, Len(s)))

RECURSIVE Count(_, _)
Count(s, e) ==
  IF s = <<>> THEN 0 ELSE (IF Head(s) = e THEN 1 ELSE 0) + Count(Tail(s), e)

\* ------------------------------------------------------------------ values
Chars == {"a"}

BadByte == "xFF"

RECURSIVE SeqsUpTo(_, _)
SeqsUpTo(S, n) ==
  IF n = 0 THEN {<<>>}
  ELSE SeqsUpTo(S, n - 1) \cup
       {Append(s, c) : s \in {t \in SeqsUpTo(S, n - 1) : Len(t) = n - 1}, c \in S}

Strs == SeqsUpTo(Chars, MaxStr)

\* struct Foo { bar: String, baz: usize }   (the documented example type)
FooVals == {[ty |-> "Foo", bar |-> s, baz |-> n] : s \in Strs, n \in 0..MaxBaz}

\* struct Pt { x: f64 }: a finite and a non-finite float
PtVals == {[ty |-> "Pt", x |-> f] : f \in {"1.5", "inf"}}

\* struct Job { baz: usize, log: PathBuf } whose path is not valid UTF-8:
\* serde's Serialize for Path fails on it, after the fields before it were emitted
JobVals == {[ty |-> "Job", baz |-> 0]}

\* a bare Path that is not valid UTF-8: Serialize fails before any output
PathVals == {[ty |-> "Path"]}

Values == FooVals \cup PtVals \cup JobVals \cup PathVals

\* the types a decode call can name as T (T: Deserialize), with their fields
DeTypes == {"Foo", "Pt"}

Fields(T) ==
  IF T = "Foo" THEN << <<"bar", "string">>, <<"baz", "usize">> >>
  ELSE << <<"x", "f64">> >>

FieldNames == {"bar", "baz", "x", "log", "zzz"}

UIntLits == {ToString(n) : n \in 0..MaxBaz}

UIntOf(lit) == CHOOSE n \in 0..MaxBaz : ToString(n) = lit

\* ------------------------------------------------------------------ codecs: encoding
\* An encoder run: the tokens it emits, in order, and the error that ends it
\* ("" when the value was encoded completely).
Emit(out, err) == [out |-> out, err |-> err]

PathErr == "path contains invalid UTF-8 characters"

StrLit(s) == <<"\"">> \o s \o <<"\"">>

JsonKey(k) == "\"" \o k \o "\""

JBegin(pretty) == IF pretty THEN <<"{", "\n", "  ">> ELSE <<"{">>

JColon(pretty) == IF pretty THEN <<":", " ">> ELSE <<":">>

JSep(pretty) == IF pretty THEN <<",", "\n", "  ">> ELSE <<",">>

JEnd(pretty) == IF pretty THEN <<"\n", "}">> ELSE <<"}">>

\* serde_json writes a float that is not finite as null
JsonF64(f) == IF f = "inf" THEN <<"null">> ELSE <<f>>

\* serde_json::to_writer / to_writer_pretty: the serializer writes as it goes
serde_json_ser(v, pretty) ==
  CASE v.ty = "Foo" ->
         Emit(JBegin(pretty) \o <<JsonKey("bar")>> \o JColon(pretty) \o StrLit(v.bar)
              \o JSep(pretty) \o <<JsonKey("baz")>> \o JColon(pretty)
              \o <<ToString(v.baz)>> \o JEnd(pretty), "")
    [] v.ty = "Pt" ->
         Emit(JBegin(pretty) \o <<JsonKey("x")>> \o JColon(pretty) \o JsonF64(v.x)
              \o JEnd(pretty), "")
    [] v.ty = "Job" ->
         Emit(JBegin(pretty) \o <<JsonKey("baz")>> \o JColon(pretty)
              \o <<ToString(v.baz)>> \o JSep(pretty) \o <<JsonKey("log")>>
              \o JColon(pretty), PathErr)
    [] OTHER -> Emit(<<>>, PathErr)

TomlLine(k, val) == <<k, " ", "=", " ">> \o val \o <<"\n">>

\* toml::to_string: builds the whole document in memory or fails
toml_ser(v) ==
  CASE v.ty = "Foo" ->
         Emit(TomlLine("bar", StrLit(v.bar)) \o TomlLine("baz", <<ToString(v.baz)>>), "")
    [] v.ty = "Pt" -> Emit(TomlLine("x", <<v.x>>), "")
    [] OTHER -> Emit(<<>>, PathErr)

FixArray(n) == "x9" \o ToString(n)

FixStr(s) == <<"xa" \o ToString(Len(s))>> \o s

FixInt(n) == "x0" \o ToString(n)

\* rmp_serde::encode::write: a struct is an array of its fields, written as it goes
rmp_ser(v) ==
  CASE v.ty = "Foo" -> Emit(<<FixArray(2)>> \o FixStr(v.bar) \o <<FixInt(v.baz)>>, "")
    [] v.ty = "Pt" -> Emit(<<FixArray(1), "xcb", v.x>>, "")
    [] v.ty = "Job" -> Emit(<<FixArray(2), FixInt(v.baz)>>, PathErr)
    [] OTHER -> Emit(<<>>, PathErr)

\* ------------------------------------------------------------------ codecs: decoding
\* A parser step: the value read and the index of the next token, or the error
\* ("eof": the input ended where more was needed; "syntax"; "data": well-formed
\* but not what T expects, such as a wrong type, a missing or a duplicate field).
POk(val, next) == [ok |-> TRUE, val |-> val, next |-> next, err |-> ""]

PErr(e) == [ok |-> FALSE, val |-> <<>>, next |-> 0, err |-> e]

FloatLits(fmt) == IF fmt = "toml" THEN {"1.5", "inf"} ELSE {"1.5"}

Scalars(fmt) == UIntLits \cup FloatLits(fmt) \cup (IF fmt = "json" THEN {"null"} ELSE {})

\* a quoted string starting at t[i]; a string that is deserialized is checked to be
\* UTF-8, one that is skipped (an unknown field) is not
TextString(t, i, validate) ==
  LET js == {j \in (i + 1)..Len(t) : t[j] = "\""}
  IN IF js = {} THEN PErr("eof")
     ELSE LET j == CHOOSE m \in js : \A k \in js : m <= k
              body == SubSeq(t, i + 1, j - 1)
          IN IF validate /\ \E k \in DOMAIN body : body[k] = BadByte
             THEN PErr("data")
             ELSE POk(body, j + 1)

TextValue(fmt, kind, t, i) ==
  IF i > Len(t) THEN PErr("eof")
  ELSE CASE kind = "string" ->
              IF t[i] = "\"" THEN TextString(t, i, TRUE)
              ELSE IF t[i] \in Scalars(fmt) THEN PErr("data") ELSE PErr("syntax")
         [] kind = "usize" ->
              IF t[i] \in UIntLits THEN POk(UIntOf(t[i]), i + 1)
              ELSE IF t[i] \in Scalars(fmt) \cup {"\""} THEN PErr("data")
              ELSE PErr("syntax")
         [] kind = "f64" ->
              IF t[i] \in UIntLits \cup FloatLits(fmt) THEN POk(t[i], i + 1)
              ELSE IF t[i] \in Scalars(fmt) \cup {"\""} THEN PErr("data")
              ELSE PErr("syntax")
         [] OTHER ->
              IF t[i] = "\"" THEN TextString(t, i, FALSE)
              ELSE IF t[i] \in Scalars(fmt) THEN POk(t[i], i + 1) ELSE PErr("syntax")

KindOf(T, name) ==
  LET hits == {k \in DOMAIN Fields(T) : Fields(T)[k][1] = name}
  IN IF hits = {} THEN "ignored" ELSE Fields(T)[CHOOSE k \in hits : TRUE][2]

Get(acc, name) == acc[CHOOSE k \in DOMAIN acc : acc[k][1] = name][2]

\* the derived Deserialize of T: every field exactly once, unknown fields ignored
Build(T, acc) ==
  IF \E f \in DOMAIN Fields(T) :
       Cardinality({k \in DOMAIN acc : acc[k][1] = Fields(T)[f][1]}) # 1
  THEN PErr("data")
  ELSE IF T = "Foo"
       THEN POk([ty |-> "Foo", bar |-> Get(acc, "bar"), baz |-> Get(acc, "baz")], 0)
       ELSE POk([ty |-> "Pt", x |-> Get(acc, "x")], 0)

RECURSIVE JMembers(_, _, _, _)
JMembers(T, t, i, acc) ==
  IF i + 1 > Len(t) THEN PErr("eof")
  ELSE IF t[i] \notin {JsonKey(k) : k \in FieldNames} \/ t[i + 1] # ":" THEN PErr("syntax")
  ELSE LET name == CHOOSE k \in FieldNames : JsonKey(k) = t[i]
           After(r, n) ==
             IF ~r.ok THEN r
             ELSE IF n > Len(t) THEN PErr("eof")
             ELSE IF t[n] = "," THEN JMembers(T, t, n + 1, Append(acc, <<name, r.val>>))
             ELSE IF t[n] = "}" THEN POk(Append(acc, <<name, r.val>>), n + 1)
             ELSE PErr("syntax")
           Member(r) == After(r, r.next)
       IN Member(TextValue("json", KindOf(T, name), t, i + 2))

\* serde_json's Deserializer over a complete input: one value, then only whitespace
serde_json_de(T, bytes) ==
  LET Object(t) ==
        LET End(m) ==
              IF ~m.ok THEN m
              ELSE IF m.next <= Len(t) THEN PErr("syntax")
              ELSE Build(T, m.val)
        IN IF Len(t) = 0 THEN PErr("eof")
           ELSE IF t[1] # "{"
                THEN IF t[1] \in Scalars("json") \cup {"\""} THEN PErr("data")
                     ELSE PErr("syntax")
           ELSE IF Len(t) >= 2 /\ t[2] = "}" THEN End(POk(<<>>, 3))
           ELSE End(JMembers(T, t, 2, <<>>))
  IN Object(SelectSeq(bytes, LAMBDA c : c \notin {" ", "  ", "\n"}))

RECURSIVE TLines(_, _, _, _)
TLines(T, t, i, acc) ==
  IF i > Len(t) THEN POk(acc, i)
  ELSE IF t[i] = "\n" THEN TLines(T, t, i + 1, acc)
  ELSE IF t[i] \notin FieldNames \/ i + 1 > Len(t) THEN PErr("syntax")
  ELSE IF t[i + 1] # "=" THEN PErr("syntax")
  ELSE LET After(r, n) ==
             IF ~r.ok THEN PErr(IF r.err = "eof" THEN "syntax" ELSE r.err)
             ELSE IF n > Len(t) THEN POk(Append(acc, <<t[i], r.val>>), n)
             ELSE IF t[n] = "\n" THEN TLines(T, t, n + 1, Append(acc, <<t[i], r.val>>))
             ELSE PErr("syntax")
           Line(r) == After(r, r.next)
       IN Line(TextValue("toml", KindOf(T, t[i]), t, i + 2))

\* toml::from_str: a document of key = value lines
toml_de(T, text) ==
  LET Document(m) == IF ~m.ok THEN m ELSE Build(T, m.val)
  IN Document(TLines(T, SelectSeq(text, LAMBDA c : c # " "), 1, <<>>))

RmpValue(kind, t, i) ==
  IF i > Len(t) THEN PErr("eof")
  ELSE CASE kind = "string" ->
              LET ns == {n \in 0..Len(t) : t[i] = "xa" \o ToString(n)}
              IN IF ns = {} THEN PErr("data")
                 ELSE LET n == CHOOSE m \in ns : TRUE
                          body == SubSeq(t, i + 1, i + n)
                      IN IF i + n > Len(t) THEN PErr("eof")
                         ELSE IF \E k \in DOMAIN body : body[k] = BadByte
                         THEN PErr("data")
                         ELSE POk(body, i + n + 1)
         [] kind = "usize" ->
              IF t[i] \in {FixInt(n) : n \in 0..MaxBaz}
              THEN POk(CHOOSE n \in 0..MaxBaz : FixInt(n) = t[i], i + 1)
              ELSE PErr("data")
         [] OTHER ->
              IF t[i] # "xcb" THEN PErr("data")
              ELSE IF i + 1 > Len(t) THEN PErr("eof")
              ELSE POk(t[i + 1], i + 2)

RECURSIVE RmpFields(_, _, _, _, _)
RmpFields(T, t, i, k, acc) ==
  IF k > Len(Fields(T)) THEN POk(acc, i)
  ELSE LET Field(r) ==
             IF ~r.ok THEN r
             ELSE RmpFields(T, t, r.next, k + 1, Append(acc, <<Fields(T)[k][1], r.val>>))
       IN Field(RmpValue(Fields(T)[k][2], t, i))

\* rmp_serde's Deserializer: reads one value and stops; what follows it is not read
rmp_de(T, bytes) ==
  LET Struct(m) == IF ~m.ok THEN m ELSE Build(T, m.val)
  IN IF Len(bytes) = 0 THEN PErr("eof")
     ELSE IF bytes[1] # FixArray(Len(Fields(T))) THEN PErr("data")
     ELSE Struct(RmpFields(T, bytes, 2, 1, <<>>))

\* ------------------------------------------------------------------ error.rs
Ok(v) == [ok |-> TRUE, val |-> v]

Err(e) == [ok |-> FALSE, err |-> e]

Unit == <<>>

\* the failure of an external call: which library's error type, and what happened
Cause(src, what) == [src |-> src, what |-> what]

\* ErrorKind::K.cause(e): a TrackableError of kind K with e attached, no history yet
KindCause(kind, e) == [kind |-> kind, cause |-> e, history |-> <<>>]

IntoTrackableError_io(e) == KindCause("Other", e)

\* the slip of giving a rejected document the kind of an I/O failure
IntoTrackableError_toml_de_other(e) == KindCause("Other", e)

IntoTrackableError_toml_de(e) == KindCause("Invalid", e)

IntoTrackableError_toml_ser(e) == KindCause("Invalid", e)

IntoTrackableError_serde_json(e) == KindCause("Invalid", e)

IntoTrackableError_rmp_encode(e) == KindCause("Invalid", e)

IntoTrackableError_rmp_decode(e) == KindCause("Invalid", e)

\* convert_toml.rs:73 converts a str::Utf8Error with Error::from; error.rs holds no
\* conversion for it
From_Utf8Error(e) == KindCause("Invalid", e)

\* Error::from(e): the conversion Rust selects by the type of e
ErrorFrom(e) ==
  CASE e.src = "io" -> IntoTrackableError_io(e)
    [] e.src = "toml::de" -> IntoTrackableError_toml_de(e)
    [] e.src = "toml::ser" -> IntoTrackableError_toml_ser(e)
    [] e.src = "serde_json" -> IntoTrackableError_serde_json(e)
    [] e.src = "rmp::encode" -> IntoTrackableError_rmp_encode(e)
    [] e.src = "rmp::decode" -> IntoTrackableError_rmp_decode(e)
    [] OTHER -> From_Utf8Error(e)

\* track!(r): an Err gets the call site appended to its history, an Ok passes
Track(r, loc) ==
  IF r.ok THEN r ELSE Err([r.err EXCEPT !.history = Append(@, loc)])

\* track_try!(r) on an Err, and track!(r.map_err(Error::from)): convert, then track
TrackFrom(cause, loc) == Track(Err(ErrorFrom(cause)), loc)

\* ------------------------------------------------------------------ std::fs, std::io
Paths == {"out.dat", "nodir/out.dat"}

\* the directory of "nodir/out.dat" does not exist
DirExists(p) == p = "out.dat"

NoFile == [exists |-> FALSE, data |-> <<>>]

FileOf(data) == [exists |-> TRUE, data |-> data]

File_open(f, p) ==
  IF DirExists(p) /\ f[p].exists THEN Ok(f[p].data) ELSE Err(Cause("io", "NotFound"))

\* the slip of opening for writing without truncating
File_create_keep(f, p) ==
  IF DirExists(p) THEN [ok |-> TRUE, fs |-> [f EXCEPT ![p] = FileOf(f[p].data)]]
  ELSE [ok |-> FALSE, err |-> Cause("io", "NotFound")]

\* File::create: creates the file, or truncates the one that is there
File_create(f, p) ==
  IF DirExists(p) THEN [ok |-> TRUE, fs |-> [f EXCEPT ![p] = FileOf(<<>>)]]
  ELSE [ok |-> FALSE, err |-> Cause("io", "NotFound")]

\* writing into a file just opened: the bytes replace what the file holds from its
\* start on, and what lies beyond them stays
FileWrite(data, written) == written \o SubSeq(data, Len(written) + 1, Len(data))

\* A reader delivers data; with failAt = k its read fails once k tokens were
\* delivered (k = Len(data): where the end of input would be reported).
Reader(data, failAt) == [data |-> data, failAt |-> failAt]

\* Read::read_to_string: reads to the end; bytes that are no UTF-8 are an io::Error
read_to_string(rd) ==
  IF rd.failAt # NoFault THEN Err(Cause("io", "read failed"))
  ELSE IF \E k \in DOMAIN rd.data : rd.data[k] = BadByte
  THEN Err(Cause("io", "InvalidData"))
  ELSE Ok(rd.data)

\* A writer accepts cap tokens and then fails (cap = NoFault: never).
\* Write::write_all
write_all(cap, bytes) ==
  IF cap = NoFault \/ Len(bytes) <= cap
  THEN [ok |-> TRUE, written |-> bytes]
  ELSE [ok |-> FALSE, written |-> Prefix(bytes, cap), err |-> Cause("io", "write failed")]

\* a serializer writing its tokens into a writer as it produces them: what reached
\* the writer, and what ended the run ("": done, "io": the writer failed)
WriteStream(e, cap) ==
  IF cap # NoFault /\ cap < Len(e.out)
  THEN [written |-> Prefix(e.out, cap), fail |-> "io"]
  ELSE [written |-> e.out, fail |-> e.err]

\* what a reader delivers before its read fails
Delivered(rd) == IF rd.failAt = NoFault THEN rd.data ELSE Prefix(rd.data, rd.failAt)

\* serde_json::from_reader: reads until the value and the end of input were seen;
\* a failed read is a serde_json::Error like any other
serde_json_from_reader(T, rd) ==
  LET Seen(r) ==
        IF rd.failAt = NoFault THEN r
        ELSE IF r.ok \/ r.err = "eof" THEN PErr("io") ELSE r
  IN Seen(serde_json_de(T, Delivered(rd)))

\* rmp_serde::decode::from_read: reads what the value needs and no further
rmp_from_read(T, rd) ==
  LET Seen(r) ==
        IF rd.failAt = NoFault THEN r
        ELSE IF ~r.ok /\ r.err = "eof" THEN PErr("io") ELSE r
  IN Seen(rmp_de(T, Delivered(rd)))

\* ------------------------------------------------------------------ convert_toml.rs
\* What a call did: its result, the tokens that reached its writer, and the calls
\* it made, in order.  A file function reports the file system it leaves instead.
R(res, out, trace) == [res |-> res, out |-> out, trace |-> trace]

F(res, f, trace) == [res |-> res, fs |-> f, trace |-> trace]

\* track!(callee(..)) inside a function that made the calls `calls` before it
Tracked(o, loc, calls) == R(Track(o.res, loc), o.out, calls \o o.trace)

\* track!(from_.._reader(file)): the file is only read
TrackedRead(o, loc, calls, f) == F(Track(o.res, loc), f, calls \o o.trace)

\* track!(to_.._writer(value, file)): what the writer took is in the file
TrackedWrite(o, loc, calls, f, path) ==
  F(Track(o.res, loc), [f EXCEPT ![path].data = FileWrite(@, o.out)], calls \o o.trace)

from_toml_str(T, toml) ==
  LET Value(d) ==
        R(IF d.ok THEN Ok(d.val)
          ELSE TrackFrom(Cause("toml::de", d.err), "convert_toml.rs:64"),
          <<>>, <<"from_toml_str", "toml::from_str">>)
  IN Value(toml_de(T, toml))

\* the slip of handing the bytes on without validating them
from_toml_slice_unchecked(T, toml) ==
  Tracked(from_toml_str(T, toml), "convert_toml.rs:73",
          <<"from_toml_slice", "str::from_utf8">>)

from_toml_slice(T, toml) ==
  IF \E k \in DOMAIN toml : toml[k] = BadByte
  THEN R(Err(ErrorFrom(Cause("utf8", "Utf8Error"))), <<>>,
         <<"from_toml_slice", "str::from_utf8">>)
  ELSE Tracked(from_toml_str(T, toml), "convert_toml.rs:73",
               <<"from_toml_slice", "str::from_utf8">>)

from_toml_reader(T, reader) ==
  LET Read(s) ==
        IF ~s.ok
        THEN R(TrackFrom(s.err, "convert_toml.rs:28"), <<>>,
               <<"from_toml_reader", "Read::read_to_string">>)
        ELSE Tracked(from_toml_str(T, s.val), "convert_toml.rs:29",
                     <<"from_toml_reader", "Read::read_to_string">>)
  IN Read(read_to_string(reader))

\* the slip of reading a file that could not be opened as an empty one
from_toml_file_lenient(T, f, path, fault) ==
  LET Opened(h) ==
        TrackedRead(from_toml_reader(T, Reader(IF h.ok THEN h.val ELSE <<>>, fault)),
                    "convert_toml.rs:18", <<"from_toml_file", "File::open">>, f)
  IN Opened(File_open(f, path))

from_toml_file(T, f, path, fault) ==
  LET Opened(h) ==
        IF ~h.ok
        THEN F(TrackFrom(h.err, "convert_toml.rs:17"), f,
               <<"from_toml_file", "File::open">>)
        ELSE TrackedRead(from_toml_reader(T, Reader(h.val, fault)), "convert_toml.rs:18",
                         <<"from_toml_file", "File::open">>, f)
  IN Opened(File_open(f, path))

to_toml_string(value) ==
  LET Text(e) ==
        R(IF e.err = "" THEN Ok(e.out)
          ELSE TrackFrom(Cause("toml::ser", e.err), "convert_toml.rs:128"),
          <<>>, <<"to_toml_string", "toml::to_string">>)
  IN Text(toml_ser(value))

to_toml_writer(value, cap) ==
  LET Write(s, w) ==
        R(IF w.ok THEN Ok(Unit) ELSE TrackFrom(w.err, "convert_toml.rs:93"),
          w.written, <<"to_toml_writer">> \o s.trace \o <<"Write::write_all">>)
      Text(s) ==
        IF ~s.res.ok THEN Tracked(s, "convert_toml.rs:92", <<"to_toml_writer">>)
        ELSE Write(s, write_all(cap, s.res.val))
  IN Text(to_toml_string(value))

\* the slip of encoding first and creating the file only for an encoded value
to_toml_file_encode_first(value, f, path, cap) ==
  LET Created(c, o) ==
        IF ~c.ok
        THEN F(TrackFrom(c.err, "convert_toml.rs:82"), f,
               <<"to_toml_file", "File::create">>)
        ELSE TrackedWrite(o, "convert_toml.rs:83", <<"to_toml_file", "File::create">>,
                          c.fs, path)
      Text(s) ==
        IF ~s.res.ok THEN F(Track(s.res, "convert_toml.rs:83"), f, <<"to_toml_file">> \o s.trace)
        ELSE Created(File_create(f, path), to_toml_writer(value, cap))
  IN Text(to_toml_string(value))

to_toml_file(value, f, path, cap) ==
  LET Created(c) ==
        IF ~c.ok
        THEN F(TrackFrom(c.err, "convert_toml.rs:82"), f,
               <<"to_toml_file", "File::create">>)
        ELSE TrackedWrite(to_toml_writer(value, cap), "convert_toml.rs:83",
                          <<"to_toml_file", "File::create">>, c.fs, path)
  IN Created(File_create(f, path))

\* ------------------------------------------------------------------ convert_json.rs
from_json_reader(T, reader) ==
  LET Value(d) ==
        R(IF d.ok THEN Ok(d.val)
          ELSE TrackFrom(Cause("serde_json", d.err), "convert_json.rs:23"),
          <<>>, <<"from_json_reader", "serde_json::from_reader">>)
  IN Value(serde_json_from_reader(T, reader))

from_json_file(T, f, path, fault) ==
  LET Opened(h) ==
        IF ~h.ok
        THEN F(TrackFrom(h.err, "convert_json.rs:14"), f,
               <<"from_json_file", "File::open">>)
        ELSE TrackedRead(from_json_reader(T, Reader(h.val, fault)), "convert_json.rs:15",
                         <<"from_json_file", "File::open">>, f)
  IN Opened(File_open(f, path))

from_json_str(T, json) ==
  LET Value(d) ==
        R(IF d.ok THEN Ok(d.val)
          ELSE TrackFrom(Cause("serde_json", d.err), "convert_json.rs:31"),
          <<>>, <<"from_json_str", "serde_json::from_str">>)
  IN Value(serde_json_de(T, json))

from_json_slice(T, json) ==
  LET Value(d) ==
        R(IF d.ok THEN Ok(d.val)
          ELSE TrackFrom(Cause("serde_json", d.err), "convert_json.rs:39"),
          <<>>, <<"from_json_slice", "serde_json::from_slice">>)
  IN Value(serde_json_de(T, json))

\* to_json_writer and to_json_writer_pretty differ in the serde_json call and the line
JsonWriter(value, cap, pretty) ==
  LET Written(w) ==
        R(IF w.fail = "" THEN Ok(Unit)
          ELSE TrackFrom(Cause("serde_json", w.fail),
                         IF pretty THEN "convert_json.rs:66" ELSE "convert_json.rs:57"),
          w.written,
          IF pretty THEN <<"to_json_writer_pretty", "serde_json::to_writer_pretty">>
          ELSE <<"to_json_writer", "serde_json::to_writer">>)
  IN Written(WriteStream(serde_json_ser(value, pretty), cap))

to_json_writer(value, cap) == JsonWriter(value, cap, FALSE)

to_json_writer_pretty(value, cap) == JsonWriter(value, cap, TRUE)

to_json_file(value, f, path, cap) ==
  LET Created(c) ==
        IF ~c.ok
        THEN F(TrackFrom(c.err, "convert_json.rs:48"), f,
               <<"to_json_file", "File::create">>)
        ELSE TrackedWrite(to_json_writer(value, cap), "convert_json.rs:49",
                          <<"to_json_file", "File::create">>, c.fs, path)
  IN Created(File_create(f, path))

\* to_json_string and to_json_string_pretty, likewise
JsonString(value, pretty) ==
  LET Text(e) ==
        R(IF e.err = "" THEN Ok(e.out)
          ELSE TrackFrom(Cause("serde_json", e.err),
                         IF pretty THEN "convert_json.rs:82" ELSE "convert_json.rs:74"),
          <<>>,
          IF pretty THEN <<"to_json_string_pretty", "serde_json::to_string_pretty">>
          ELSE <<"to_json_string", "serde_json::to_string">>)
  IN Text(serde_json_ser(value, pretty))

to_json_string(value) == JsonString(value, FALSE)

to_json_string_pretty(value) == JsonString(value, TRUE)

\* ------------------------------------------------------------------ convert_msgpack.rs
from_msgpack_reader(T, reader) ==
  LET Value(d) ==
        R(IF d.ok THEN Ok(d.val)
          ELSE TrackFrom(Cause("rmp::decode", d.err), "convert_msgpack.rs:25"),
          <<>>, <<"from_msgpack_reader", "rmp_serde::decode::from_read">>)
  IN Value(rmp_from_read(T, reader))

from_msgpack_file(T, f, path, fault) ==
  LET Opened(h) ==
        IF ~h.ok
        THEN F(TrackFrom(h.err, "convert_msgpack.rs:15"), f,
               <<"from_msgpack_file", "File::open">>)
        ELSE TrackedRead(from_msgpack_reader(T, Reader(h.val, fault)),
                         "convert_msgpack.rs:16", <<"from_msgpack_file", "File::open">>, f)
  IN Opened(File_open(f, path))

from_msgpack_slice(T, bytes) ==
  LET Value(d) ==
        R(IF d.ok THEN Ok(d.val)
          ELSE TrackFrom(Cause("rmp::decode", d.err), "convert_msgpack.rs:34"),
          <<>>, <<"from_msgpack_slice", "rmp_serde::from_slice">>)
  IN Value(rmp_de(T, bytes))

to_msgpack_writer(value, cap) ==
  LET Written(w) ==
        R(IF w.fail = "" THEN Ok(Unit)
          ELSE TrackFrom(Cause("rmp::encode", w.fail), "convert_msgpack.rs:54"),
          w.written, <<"to_msgpack_writer", "rmp_serde::encode::write">>)
  IN Written(WriteStream(rmp_ser(value), cap))

to_msgpack_file(value, f, path, cap) ==
  LET Created(c) ==
        IF ~c.ok
        THEN F(TrackFrom(c.err, "convert_msgpack.rs:44"), f,
               <<"to_msgpack_file", "File::create">>)
        ELSE TrackedWrite(to_msgpack_writer(value, cap), "convert_msgpack.rs:45",
                          <<"to_msgpack_file", "File::create">>, c.fs, path)
  IN Created(File_create(f, path))

\* the slip of a copied function body that still calls the JSON encoder
to_msgpack_vec_json(value) ==
  LET Bytes(e) ==
        R(IF e.err = "" THEN Ok(e.out)
          ELSE TrackFrom(Cause("serde_json", e.err), "convert_msgpack.rs:63"),
          <<>>, <<"to_msgpack_vec", "serde_json::to_vec">>)
  IN Bytes(serde_json_ser(value, FALSE))

to_msgpack_vec(value) ==
  LET Bytes(e) ==
        R(IF e.err = "" THEN Ok(e.out)
          ELSE TrackFrom(Cause("rmp::encode", e.err), "convert_msgpack.rs:63"),
          <<>>, <<"to_msgpack_vec", "rmp_serde::encode::to_vec">>)
  IN Bytes(rmp_ser(value))

\* ------------------------------------------------------------------ traits.rs
\* a default method: track!(::function(args))
Forward(o, method, loc) ==
  [o EXCEPT !.res = Track(o.res, loc), !.trace = <<method>> \o o.trace]

FromToml_from_toml_file(T, f, path, fault) ==
  Forward(from_toml_file(T, f, path, fault), "FromToml::from_toml_file", "traits.rs:41")

FromToml_from_toml_reader(T, reader) ==
  Forward(from_toml_reader(T, reader), "FromToml::from_toml_reader", "traits.rs:46")

FromToml_from_toml_str(T, toml) ==
  Forward(from_toml_str(T, toml), "FromToml::from_toml_str", "traits.rs:51")

FromToml_from_toml_slice(T, toml) ==
  Forward(from_toml_slice(T, toml), "FromToml::from_toml_slice", "traits.rs:56")

ToToml_to_toml_file(value, f, path, cap) ==
  Forward(to_toml_file(value, f, path, cap), "ToToml::to_toml_file", "traits.rs:93")

ToToml_to_toml_writer(value, cap) ==
  Forward(to_toml_writer(value, cap), "ToToml::to_toml_writer", "traits.rs:98")

ToToml_to_toml_string(value) ==
  Forward(to_toml_string(value), "ToToml::to_toml_string", "traits.rs:103")

FromJson_from_json_file(T, f, path, fault) ==
  Forward(from_json_file(T, f, path, fault), "FromJson::from_json_file", "traits.rs:141")

FromJson_from_json_reader(T, reader) ==
  Forward(from_json_reader(T, reader), "FromJson::from_json_reader", "traits.rs:146")

FromJson_from_json_str(T, json) ==
  Forward(from_json_str(T, json), "FromJson::from_json_str", "traits.rs:151")

FromJson_from_json_slice(T, json) ==
  Forward(from_json_slice(T, json), "FromJson::from_json_slice", "traits.rs:156")

ToJson_to_json_file(value, f, path, cap) ==
  Forward(to_json_file(value, f, path, cap), "ToJson::to_json_file", "traits.rs:190")

\* the slip of forwarding to the neighbouring function
ToJson_to_json_writer_slip(value, cap) ==
  Forward(to_json_writer_pretty(value, cap), "ToJson::to_json_writer", "traits.rs:195")

ToJson_to_json_writer(value, cap) ==
  Forward(to_json_writer(value, cap), "ToJson::to_json_writer", "traits.rs:195")

ToJson_to_json_writer_pretty(value, cap) ==
  Forward(to_json_writer_pretty(value, cap), "ToJson::to_json_writer_pretty",
          "traits.rs:200")

ToJson_to_json_string(value) ==
  Forward(to_json_string(value), "ToJson::to_json_string", "traits.rs:205")

ToJson_to_json_string_pretty(value) ==
  Forward(to_json_string_pretty(value), "ToJson::to_json_string_pretty", "traits.rs:210")

\* The traits of traits.rs and the capability each names as its supertrait.
Traits == {"FromToml", "ToToml", "FromJson", "ToJson"}

Supertrait(tr) == IF tr \in {"FromToml", "FromJson"} THEN "Deserialize" ELSE "Serialize"

\* the types of a user crate: Foo and Pt derive Serialize and Deserialize, Path is
\* only Serialize, Raw derives neither
UserTypes == {"Foo", "Pt", "Path", "Raw"}

Satisfies(t, capability) ==
  IF capability = "Deserialize" THEN t \in {"Foo", "Pt"} ELSE t \in {"Foo", "Pt", "Path"}

\* what a blanket `impl<T: Serialize> ToToml for T {}` in traits.rs would give
HasMethods_blanket(t, tr) == Satisfies(t, Supertrait(tr))

\* impls: the items `impl Trait for Type {}` the user crate holds.  traits.rs
\* declares the traits with default methods and implements them for no type, so a
\* type has a trait's methods exactly when such an item names it.
HasMethods(t, tr) == <<t, tr>> \in impls

AllImpls == {p \in UserTypes \X Traits : Satisfies(p[1], Supertrait(p[2]))}

\* ------------------------------------------------------------------ inputs
\* the values whose encodings are handed to the decode functions
DocVals ==
  {[ty |-> "Foo", bar |-> s, baz |-> MaxBaz] : s \in {t \in Strs : Len(t) = MaxStr}}
  \cup PtVals

\* a Foo whose string holds a byte that is not UTF-8 (its encodings are no text)
BadFoo == [ty |-> "Foo", bar |-> <<BadByte>>, baz |-> 0]

\* a JSON object with a field Foo does not know, holding such a byte
JsonUnknownField ==
  <<"{", JsonKey("bar"), ":", "\"", "\"", ",", JsonKey("baz"), ":", "0", ",",
    JsonKey("zzz"), ":", "\"", BadByte, "\"", "}">>

\* documents, truncated documents, and documents that are not UTF-8
Mangled(docs) ==
  docs \cup {Prefix(d, k) : d \in docs, k \in 0..MaxCut} \cup {<<BadByte>> \o d : d \in docs}

TomlInputs == Mangled({toml_ser(v).out : v \in DocVals}) \cup {toml_ser(BadFoo).out}

JsonInputs ==
  Mangled({serde_json_ser(v, FALSE).out : v \in DocVals})
  \cup {serde_json_ser(v, TRUE).out : v \in DocVals}
  \cup {serde_json_ser(BadFoo, FALSE).out, JsonUnknownField}

MsgpackInputs == Mangled({rmp_ser(v).out : v \in DocVals}) \cup {rmp_ser(BadFoo).out}

\* the byte inputs of the decode functions of a format
SliceInputs(fmt) ==
  CASE fmt = "toml" -> TomlInputs [] fmt = "json" -> JsonInputs [] OTHER -> MsgpackInputs

IsUtf8(d) == \A k \in DOMAIN d : d[k] # BadByte

TomlStrInputs == {d \in TomlInputs : IsUtf8(d)}

JsonStrInputs == {d \in JsonInputs : IsUtf8(d)}

\* a &str is UTF-8
StrInputs(fmt) == IF fmt = "toml" THEN TomlStrInputs ELSE JsonStrInputs

\* a read fails at once, after FaultAt tokens, at the end of the data, or never
ReaderFaults(data) == {NoFault, Min(FaultAt, Len(data)), Len(data)}

\* a writer fails after FaultAt tokens, or never
WriterCaps == {NoFault, FaultAt}

Junk(n) == [k \in 1..n |-> "j"]

EmptyFs == [p \in Paths |-> NoFile]

\* what the file may hold before the first call: nothing, a short or a long content
InitFs ==
  {[EmptyFs EXCEPT !["out.dat"] = c] : c \in {NoFile, FileOf(Junk(1)), FileOf(Junk(24))}}

\* ------------------------------------------------------------------ state
\* fs: the file system; impls: the trait implementations of the user crate;
\* last: the last call, with its arguments, the file system before it and what it did
NoCall ==
  [op |-> "none", via |-> "none", ty |-> "-", arg |-> <<>>, path |-> "-",
   fault |-> NoFault, pre |-> <<>>, res |-> Ok(Unit), out |-> <<>>, trace |-> <<>>]

Init == fs \in InitFs /\ impls = {} /\ last = NoCall

InitMem == fs = EmptyFs /\ impls = {} /\ last = NoCall

\* a user crate that implements every trait for every type that can have it
InitTrait == fs = EmptyFs /\ impls = AllImpls /\ last = NoCall

\* the record of a call of a function that touches no file
CalledR(op, via, ty, arg, fault, o) ==
  [op |-> op, via |-> via, ty |-> ty, arg |-> arg, path |-> "-", fault |-> fault,
   pre |-> fs, res |-> o.res, out |-> o.out, trace |-> o.trace]

\* the record of a call of a file function
CalledF(op, via, ty, arg, path, fault, o) ==
  [op |-> op, via |-> via, ty |-> ty, arg |-> arg, path |-> path, fault |-> fault,
   pre |-> fs, res |-> o.res, out |-> <<>>, trace |-> o.trace]

\* ------------------------------------------------------------------ actions
Call_from_toml_file ==
  \E T \in DeTypes, p \in Paths : \E k \in ReaderFaults(fs[p].data) :
    /\ \E o \in {from_toml_file(T, fs, p, k)} :
         /\ last' = CalledF("from_toml_file", "free", T, <<>>, p, k, o)
         /\ fs' = o.fs
    /\ UNCHANGED impls

Call_from_toml_reader ==
  \E T \in DeTypes, s \in SliceInputs("toml") : \E k \in ReaderFaults(s) :
    /\ last' = CalledR("from_toml_reader", "free", T, s, k,
                     from_toml_reader(T, Reader(s, k)))
    /\ UNCHANGED <<fs, impls>>

Call_from_toml_str ==
  \E T \in DeTypes, s \in StrInputs("toml") :
    /\ last' = CalledR("from_toml_str", "free", T, s, NoFault,
                     from_toml_str(T, s))
    /\ UNCHANGED <<fs, impls>>

Call_from_toml_slice ==
  \E T \in DeTypes, s \in SliceInputs("toml") :
    /\ last' = CalledR("from_toml_slice", "free", T, s, NoFault,
                     from_toml_slice(T, s))
    /\ UNCHANGED <<fs, impls>>

Call_to_toml_file ==
  \E v \in Values, p \in Paths, cap \in WriterCaps :
    /\ \E o \in {to_toml_file(v, fs, p, cap)} :
         /\ last' = CalledF("to_toml_file", "free", v.ty, v, p, cap, o)
         /\ fs' = o.fs
    /\ UNCHANGED impls

Call_to_toml_writer ==
  \E v \in Values, cap \in WriterCaps :
    /\ last' = CalledR("to_toml_writer", "free", v.ty, v, cap,
                     to_toml_writer(v, cap))
    /\ UNCHANGED <<fs, impls>>

Call_to_toml_string ==
  \E v \in Values :
    /\ last' = CalledR("to_toml_string", "free", v.ty, v, NoFault,
                     to_toml_string(v))
    /\ UNCHANGED <<fs, impls>>

Call_from_json_file ==
  \E T \in DeTypes, p \in Paths : \E k \in ReaderFaults(fs[p].data) :
    /\ \E o \in {from_json_file(T, fs, p, k)} :
         /\ last' = CalledF("from_json_file", "free", T, <<>>, p, k, o)
         /\ fs' = o.fs
    /\ UNCHANGED impls

Call_from_json_reader ==
  \E T \in DeTypes, s \in SliceInputs("json") : \E k \in ReaderFaults(s) :
    /\ last' = CalledR("from_json_reader", "free", T, s, k,
                     from_json_reader(T, Reader(s, k)))
    /\ UNCHANGED <<fs, impls>>

Call_from_json_str ==
  \E T \in DeTypes, s \in StrInputs("json") :
    /\ last' = CalledR("from_json_str", "free", T, s, NoFault,
                     from_json_str(T, s))
    /\ UNCHANGED <<fs, impls>>

Call_from_json_slice ==
  \E T \in DeTypes, s \in SliceInputs("json") :
    /\ last' = CalledR("from_json_slice", "free", T, s, NoFault,
                     from_json_slice(T, s))
    /\ UNCHANGED <<fs, impls>>

Call_to_json_file ==
  \E v \in Values, p \in Paths, cap \in WriterCaps :
    /\ \E o \in {to_json_file(v, fs, p, cap)} :
         /\ last' = CalledF("to_json_file", "free", v.ty, v, p, cap, o)
         /\ fs' = o.fs
    /\ UNCHANGED impls

Call_to_json_writer ==
  \E v \in Values, cap \in WriterCaps :
    /\ last' = CalledR("to_json_writer", "free", v.ty, v, cap,
                     to_json_writer(v, cap))
    /\ UNCHANGED <<fs, impls>>

Call_to_json_writer_pretty ==
  \E v \in Values, cap \in WriterCaps :
    /\ last' = CalledR("to_json_writer_pretty", "free", v.ty, v, cap,
                     to_json_writer_pretty(v, cap))
    /\ UNCHANGED <<fs, impls>>

Call_to_json_string ==
  \E v \in Values :
    /\ last' = CalledR("to_json_string", "free", v.ty, v, NoFault,
                     to_json_string(v))
    /\ UNCHANGED <<fs, impls>>

Call_to_json_string_pretty ==
  \E v \in Values :
    /\ last' = CalledR("to_json_string_pretty", "free", v.ty, v, NoFault,
                     to_json_string_pretty(v))
    /\ UNCHANGED <<fs, impls>>

Call_from_msgpack_file ==
  \E T \in DeTypes, p \in Paths : \E k \in ReaderFaults(fs[p].data) :
    /\ \E o \in {from_msgpack_file(T, fs, p, k)} :
         /\ last' = CalledF("from_msgpack_file", "free", T, <<>>, p, k, o)
         /\ fs' = o.fs
    /\ UNCHANGED impls

Call_from_msgpack_reader ==
  \E T \in DeTypes, s \in SliceInputs("msgpack") : \E k \in ReaderFaults(s) :
    /\ last' = CalledR("from_msgpack_reader", "free", T, s, k,
                     from_msgpack_reader(T, Reader(s, k)))
    /\ UNCHANGED <<fs, impls>>

Call_from_msgpack_slice ==
  \E T \in DeTypes, s \in SliceInputs("msgpack") :
    /\ last' = CalledR("from_msgpack_slice", "free", T, s, NoFault,
                     from_msgpack_slice(T, s))
    /\ UNCHANGED <<fs, impls>>

Call_to_msgpack_file ==
  \E v \in Values, p \in Paths, cap \in WriterCaps :
    /\ \E o \in {to_msgpack_file(v, fs, p, cap)} :
         /\ last' = CalledF("to_msgpack_file", "free", v.ty, v, p, cap, o)
         /\ fs' = o.fs
    /\ UNCHANGED impls

Call_to_msgpack_writer ==
  \E v \in Values, cap \in WriterCaps :
    /\ last' = CalledR("to_msgpack_writer", "free", v.ty, v, cap,
                     to_msgpack_writer(v, cap))
    /\ UNCHANGED <<fs, impls>>

Call_to_msgpack_vec ==
  \E v \in Values :
    /\ last' = CalledR("to_msgpack_vec", "free", v.ty, v, NoFault,
                     to_msgpack_vec(v))
    /\ UNCHANGED <<fs, impls>>

Call_FromToml_from_toml_file ==
  \E T \in DeTypes, p \in Paths : \E k \in ReaderFaults(fs[p].data) :
    /\ HasMethods(T, "FromToml")
    /\ \E o \in {FromToml_from_toml_file(T, fs, p, k)} :
         /\ last' = CalledF("from_toml_file", "trait", T, <<>>, p, k, o)
         /\ fs' = o.fs
    /\ UNCHANGED impls

Call_FromToml_from_toml_reader ==
  \E T \in DeTypes, s \in SliceInputs("toml") : \E k \in ReaderFaults(s) :
    /\ HasMethods(T, "FromToml")
    /\ last' = CalledR("from_toml_reader", "trait", T, s, k,
                     FromToml_from_toml_reader(T, Reader(s, k)))
    /\ UNCHANGED <<fs, impls>>

Call_FromToml_from_toml_str ==
  \E T \in DeTypes, s \in StrInputs("toml") :
    /\ HasMethods(T, "FromToml")
    /\ last' = CalledR("from_toml_str", "trait", T, s, NoFault,
                     FromToml_from_toml_str(T, s))
    /\ UNCHANGED <<fs, impls>>

Call_FromToml_from_toml_slice ==
  \E T \in DeTypes, s \in SliceInputs("toml") :
    /\ HasMethods(T, "FromToml")
    /\ last' = CalledR("from_toml_slice", "trait", T, s, NoFault,
                     FromToml_from_toml_slice(T, s))
    /\ UNCHANGED <<fs, impls>>

Call_ToToml_to_toml_file ==
  \E v \in Values, p \in Paths, cap \in WriterCaps :
    /\ HasMethods(v.ty, "ToToml")
    /\ \E o \in {ToToml_to_toml_file(v, fs, p, cap)} :
         /\ last' = CalledF("to_toml_file", "trait", v.ty, v, p, cap, o)
         /\ fs' = o.fs
    /\ UNCHANGED impls

Call_ToToml_to_toml_writer ==
  \E v \in Values, cap \in WriterCaps :
    /\ HasMethods(v.ty, "ToToml")
    /\ last' = CalledR("to_toml_writer", "trait", v.ty, v, cap,
                     ToToml_to_toml_writer(v, cap))
    /\ UNCHANGED <<fs, impls>>

Call_ToToml_to_toml_string ==
  \E v \in Values :
    /\ HasMethods(v.ty, "ToToml")
    /\ last' = CalledR("to_toml_string", "trait", v.ty, v, NoFault,
                     ToToml_to_toml_string(v))
    /\ UNCHANGED <<fs, impls>>

Call_FromJson_from_json_file ==
  \E T \in DeTypes, p \in Paths : \E k \in ReaderFaults(fs[p].data) :
    /\ HasMethods(T, "FromJson")
    /\ \E o \in {FromJson_from_json_file(T, fs, p, k)} :
         /\ last' = CalledF("from_json_file", "trait", T, <<>>, p, k, o)
         /\ fs' = o.fs
    /\ UNCHANGED impls

Call_FromJson_from_json_reader ==
  \E T \in DeTypes, s \in SliceInputs("json") : \E k \in ReaderFaults(s) :
    /\ HasMethods(T, "FromJson")
    /\ last' = CalledR("from_json_reader", "trait", T, s, k,
                     FromJson_from_json_reader(T, Reader(s, k)))
    /\ UNCHANGED <<fs, impls>>

Call_FromJson_from_json_str ==
  \E T \in DeTypes, s \in StrInputs("json") :
    /\ HasMethods(T, "FromJson")
    /\ last' = CalledR("from_json_str", "trait", T, s, NoFault,
                     FromJson_from_json_str(T, s))
    /\ UNCHANGED <<fs, impls>>

Call_FromJson_from_json_slice ==
  \E T \in DeTypes, s \in SliceInputs("json") :
    /\ HasMethods(T, "FromJson")
    /\ last' = CalledR("from_json_slice", "trait", T, s, NoFault,
                     FromJson_from_json_slice(T, s))
    /\ UNCHANGED <<fs, impls>>

Call_ToJson_to_json_file ==
  \E v \in Values, p \in Paths, cap \in WriterCaps :
    /\ HasMethods(v.ty, "ToJson")
    /\ \E o \in {ToJson_to_json_file(v, fs, p, cap)} :
         /\ last' = CalledF("to_json_file", "trait", v.ty, v, p, cap, o)
         /\ fs' = o.fs
    /\ UNCHANGED impls

Call_ToJson_to_json_writer ==
  \E v \in Values, cap \in WriterCaps :
    /\ HasMethods(v.ty, "ToJson")
    /\ last' = CalledR("to_json_writer", "trait", v.ty, v, cap,
                     ToJson_to_json_writer(v, cap))
    /\ UNCHANGED <<fs, impls>>

Call_ToJson_to_json_writer_pretty ==
  \E v \in Values, cap \in WriterCaps :
    /\ HasMethods(v.ty, "ToJson")
    /\ last' = CalledR("to_json_writer_pretty", "trait", v.ty, v, cap,
                     ToJson_to_json_writer_pretty(v, cap))
    /\ UNCHANGED <<fs, impls>>

Call_ToJson_to_json_string ==
  \E v \in Values :
    /\ HasMethods(v.ty, "ToJson")
    /\ last' = CalledR("to_json_string", "trait", v.ty, v, NoFault,
                     ToJson_to_json_string(v))
    /\ UNCHANGED <<fs, impls>>

Call_ToJson_to_json_string_pretty ==
  \E v \in Values :
    /\ HasMethods(v.ty, "ToJson")
    /\ last' = CalledR("to_json_string_pretty", "trait", v.ty, v, NoFault,
                     ToJson_to_json_string_pretty(v))
    /\ UNCHANGED <<fs, impls>>

\* the user adds `impl tr for t {}`: rustc accepts it only if t satisfies the
\* supertrait of tr; the edited crate is to be compiled anew
ImplTrait ==
  \E t \in UserTypes, tr \in Traits :
    /\ Satisfies(t, Supertrait(tr))
    /\ <<t, tr>> \notin impls
    /\ impls' = impls \cup {<<t, tr>>}
    /\ last' = NoCall
    /\ UNCHANGED fs

\* rustc resolves a call of a method of tr on t: it compiles iff t has the methods
Resolve ==
  \E t \in UserTypes, tr \in Traits :
    /\ last' = [NoCall EXCEPT !.op = "resolve", !.ty = t, !.arg = tr,
                              !.res = [ok |-> HasMethods(t, tr)]]
    /\ UNCHANGED <<fs, impls>>

\* ------------------------------------------------------------------ specifications
NextMem ==
  \/ Call_from_toml_reader
  \/ Call_from_toml_str
  \/ Call_from_toml_slice
  \/ Call_to_toml_writer
  \/ Call_to_toml_string
  \/ Call_from_json_reader
  \/ Call_from_json_str
  \/ Call_from_json_slice
  \/ Call_to_json_writer
  \/ Call_to_json_writer_pretty
  \/ Call_to_json_string
  \/ Call_to_json_string_pretty
  \/ Call_from_msgpack_reader
  \/ Call_from_msgpack_slice
  \/ Call_to_msgpack_writer
  \/ Call_to_msgpack_vec

NextFile ==
  \/ Call_from_toml_file
  \/ Call_to_toml_file
  \/ Call_from_json_file
  \/ Call_to_json_file
  \/ Call_from_msgpack_file
  \/ Call_to_msgpack_file

NextTrait ==
  \/ Call_FromToml_from_toml_file
  \/ Call_FromToml_from_toml_reader
  \/ Call_FromToml_from_toml_str
  \/ Call_FromToml_from_toml_slice
  \/ Call_ToToml_to_toml_file
  \/ Call_ToToml_to_toml_writer
  \/ Call_ToToml_to_toml_string
  \/ Call_FromJson_from_json_file
  \/ Call_FromJson_from_json_reader
  \/ Call_FromJson_from_json_str
  \/ Call_FromJson_from_json_slice
  \/ Call_ToJson_to_json_file
  \/ Call_ToJson_to_json_writer
  \/ Call_ToJson_to_json_writer_pretty
  \/ Call_ToJson_to_json_string
  \/ Call_ToJson_to_json_string_pretty

NextImpl == ImplTrait \/ Resolve

Next == NextMem \/ NextFile \/ NextTrait \/ NextImpl

\* the functions that work in memory or on a reader or writer
SpecMem == InitMem /\ [][NextMem]_vars

\* the file functions
SpecFile == Init /\ [][NextFile]_vars

\* the trait methods
SpecTrait == InitTrait /\ [][NextTrait]_vars

\* writing and type checking the user crate
SpecImpl == InitMem /\ [][NextImpl]_vars

Spec == Init /\ [][Next]_vars

\* ------------------------------------------------------------------ properties
ReaderOps == {"from_toml_reader", "from_json_reader", "from_msgpack_reader"}

WriterOps ==
  {"to_toml_writer", "to_json_writer", "to_json_writer_pretty", "to_msgpack_writer"}

MemDecodeOps == {"from_toml_str", "from_json_str", "from_json_slice", "from_msgpack_slice"}

EncodeOps == {"to_toml_string", "to_json_string", "to_json_string_pretty", "to_msgpack_vec"}

FileReadOps == {"from_toml_file", "from_json_file", "from_msgpack_file"}

FileWriteOps == {"to_toml_file", "to_json_file", "to_msgpack_file"}

FreeCall(ops) == last.via = "free" /\ last.op \in ops

FormatOf(op) ==
  IF op \in {"from_toml_file", "from_toml_reader", "from_toml_str", "from_toml_slice",
             "to_toml_file", "to_toml_writer", "to_toml_string"} THEN "toml"
  ELSE IF op \in {"from_msgpack_file", "from_msgpack_reader", "from_msgpack_slice",
                  "to_msgpack_file", "to_msgpack_writer", "to_msgpack_vec"} THEN "msgpack"
  ELSE "json"

\* the call failed and the attached cause is the failure of the reader's read or of
\* the writer's write
IoFailed(r) ==
  ~r.ok /\ r.err.cause.what \in {"io", "read failed", "InvalidData", "write failed"}

\* C1: from_<fmt>_reader returns an error of kind Other whenever the reader's read
\* fails, and of kind Invalid whenever the reads succeed but the bytes do not parse;
\* no read failure is reported as Invalid.
C1_ReaderErrorKinds ==
  FreeCall(ReaderOps) =>
    /\ IoFailed(last.res) => last.res.err.kind = "Other"
    /\ (~last.res.ok /\ ~IoFailed(last.res)) => last.res.err.kind = "Invalid"

\* C2: to_<fmt>_writer and to_json_writer_pretty return an error of kind Invalid when
\* the value cannot be encoded and of kind Other when the writer's write fails; no
\* write failure is reported as Invalid.
C2_WriterErrorKinds ==
  FreeCall(WriterOps) =>
    /\ IoFailed(last.res) => last.res.err.kind = "Other"
    /\ (~last.res.ok /\ last.res.err.cause.what = PathErr) => last.res.err.kind = "Invalid"

\* what the codec of a format says of an input, and the type of its error
Decoded(fmt, T, bytes) ==
  CASE fmt = "toml" -> toml_de(T, bytes)
    [] fmt = "json" -> serde_json_de(T, bytes)
    [] OTHER -> rmp_de(T, bytes)

DecodeError(fmt) ==
  CASE fmt = "toml" -> "toml::de" [] fmt = "json" -> "serde_json" [] OTHER -> "rmp::decode"

Rejected == ~Decoded(FormatOf(last.op), last.ty, last.arg).ok

\* C3: for every input the codec rejects, from_toml_str, from_json_str,
\* from_json_slice and from_msgpack_slice return an error of kind Invalid (never
\* Other, never a value) with the codec's error attached as the cause.
C3_RejectedIsInvalid ==
  (FreeCall(MemDecodeOps) /\ Rejected) =>
    /\ ~last.res.ok
    /\ last.res.err.kind = "Invalid"
    /\ last.res.err.cause =
         Cause(DecodeError(FormatOf(last.op)),
               Decoded(FormatOf(last.op), last.ty, last.arg).err)

\* a TOML document of the wrong shape for T was rejected
C3_Witness ==
  /\ FreeCall({"from_toml_str"}) /\ Rejected
  /\ last.res.err.cause = Cause("toml::de", "data")
  /\ last.res.err.kind = "Invalid"

FirstCall(op) == IF op \in FileReadOps THEN "File::open" ELSE "File::create"

\* the reader or writer variant a file function delegates to
Variant(op) ==
  CASE op = "from_toml_file" -> "from_toml_reader"
    [] op = "from_json_file" -> "from_json_reader"
    [] op = "from_msgpack_file" -> "from_msgpack_reader"
    [] op = "to_toml_file" -> "to_toml_writer"
    [] op = "to_json_file" -> "to_json_writer"
    [] OTHER -> "to_msgpack_writer"

\* the path of the call could not be opened (created) in the file system before it
OpenFailed ==
  \/ ~DirExists(last.path)
  \/ last.op \in FileReadOps /\ ~last.pre[last.path].exists

\* C4: from_<fmt>_file and to_<fmt>_file first open (create) the path, once; if
\* that fails the call returns an error of kind Other at once, having called
\* nothing else and changed nothing; otherwise the reader (writer) variant is
\* invoked next, exactly once.
C4_OpenFirst ==
  FreeCall(FileReadOps \cup FileWriteOps) =>
    /\ Len(last.trace) >= 2
    /\ last.trace[1] = last.op
    /\ last.trace[2] = FirstCall(last.op)
    /\ Count(last.trace, FirstCall(last.op)) = 1
    /\ IF OpenFailed
       THEN /\ ~last.res.ok
            /\ last.res.err.kind = "Other"
            /\ last.trace = <<last.op, FirstCall(last.op)>>
            /\ fs = last.pre
       ELSE /\ Len(last.trace) >= 3
            /\ last.trace[3] = Variant(last.op)
            /\ Count(last.trace, Variant(last.op)) = 1

\* reading a file that does not exist failed with Other
C4_Witness ==
  /\ FreeCall({"from_toml_file"}) /\ OpenFailed
  /\ last.path = "out.dat"
  /\ last.res.err.kind = "Other"

\* the decode functions that match an encode function, applied to its output
DecodedBack(op, T, enc) ==
  CASE op = "to_toml_string" -> {from_toml_str(T, enc).res}
    [] op = "to_msgpack_vec" -> {from_msgpack_slice(T, enc).res}
    [] OTHER -> {from_json_str(T, enc).res, from_json_slice(T, enc).res}

ReadBack(op, T, f, path) ==
  CASE op = "to_toml_file" -> from_toml_file(T, f, path, NoFault).res
    [] op = "to_json_file" -> from_json_file(T, f, path, NoFault).res
    [] OTHER -> from_msgpack_file(T, f, path, NoFault).res

FreeOutcome ==
  CASE last.op = "from_toml_file" -> from_toml_file(last.ty, last.pre, last.path, last.fault)
    [] last.op = "from_toml_reader" -> from_toml_reader(last.ty, Reader(last.arg, last.fault))
    [] last.op = "from_toml_str" -> from_toml_str(last.ty, last.arg)
    [] last.op = "from_toml_slice" -> from_toml_slice(last.ty, last.arg)
    [] last.op = "to_toml_file" -> to_toml_file(last.arg, last.pre, last.path, last.fault)
    [] last.op = "to_toml_writer" -> to_toml_writer(last.arg, last.fault)
    [] last.op = "to_toml_string" -> to_toml_string(last.arg)
    [] last.op = "from_json_file" -> from_json_file(last.ty, last.pre, last.path, last.fault)
    [] last.op = "from_json_reader" -> from_json_reader(last.ty, Reader(last.arg, last.fault))
    [] last.op = "from_json_str" -> from_json_str(last.ty, last.arg)
    [] last.op = "from_json_slice" -> from_json_slice(last.ty, last.arg)
    [] last.op = "to_json_file" -> to_json_file(last.arg, last.pre, last.path, last.fault)
    [] last.op = "to_json_writer" -> to_json_writer(last.arg, last.fault)
    [] last.op = "to_json_writer_pretty" -> to_json_writer_pretty(last.arg, last.fault)
    [] last.op = "to_json_string" -> to_json_string(last.arg)
    [] OTHER -> to_json_string_pretty(last.arg)

\* the same value, or an error of the same kind with the same cause
SameOutcome(a, b) ==
  /\ a.ok = b.ok
  /\ a.ok => a.val = b.val
  /\ ~a.ok => a.err.kind = b.err.kind /\ a.err.cause = b.err.cause

IsFileOp(op) == op \in FileReadOps \cup FileWriteOps

\* the effects of a call: the file system it leaves, or what reached its writer
SameEffects(o) ==
  IF IsFileOp(last.op) THEN fs = o.fs ELSE fs = last.pre /\ last.out = o.out

\* C7: every method of FromToml, ToToml, FromJson and ToJson has the outcome and the
\* effects of the free function of its name, and calls it exactly once and first.
C7_TraitForwards ==
  last.via = "trait" =>
    /\ SameOutcome(last.res, FreeOutcome.res)
    /\ SameEffects(FreeOutcome)
    /\ Tail(last.trace) = FreeOutcome.trace
    /\ Count(last.trace, last.op) = 1

\* ToJson::to_json_file failed on a writer that gave up and left a cut file
C7_Witness ==
  /\ last.via = "trait" /\ last.op = "to_json_file"
  /\ ~last.res.ok
  /\ fs # last.pre
  /\ last.trace[1] = "ToJson::to_json_file"

Parsers == {"toml::from_str", "serde_json::from_str", "serde_json::from_slice"}

NoParserCalled == \A k \in DOMAIN last.trace : last.trace[k] \notin Parsers

\* C9 as stated: from_toml_slice and from_json_slice given bytes that are not UTF-8
\* fail with Invalid before any parsing: no parser is invoked, no value returned.
C9_NonUtf8BeforeParsing ==
  (FreeCall({"from_toml_slice", "from_json_slice"}) /\ ~IsUtf8(last.arg)) =>
    /\ ~last.res.ok
    /\ last.res.err.kind = "Invalid"
    /\ NoParserCalled

\* C9 amended: from_toml_slice given bytes that are not UTF-8 fails with Invalid, the
\* validation error attached, and the TOML parser is not invoked; from_json_slice
\* validates nothing itself: it hands the bytes to serde_json::from_slice, and fails
\* with Invalid exactly when that parser rejects them.
C9_TomlValidatesJsonParses ==
  /\ (FreeCall({"from_toml_slice"}) /\ ~IsUtf8(last.arg)) =>
       /\ ~last.res.ok
       /\ last.res.err.kind = "Invalid"
       /\ last.res.err.cause = Cause("utf8", "Utf8Error")
       /\ last.trace = <<"from_toml_slice", "str::from_utf8">>
  /\ (FreeCall({"from_json_slice"}) /\ ~IsUtf8(last.arg)) =>
       /\ last.trace = <<"from_json_slice", "serde_json::from_slice">>
       /\ last.res.ok <=> ~Rejected
       /\ ~last.res.ok => last.res.err.kind = "Invalid"

\* from_toml_slice refused a document behind a byte that is not UTF-8
C9_Witness ==
  /\ FreeCall({"from_toml_slice"}) /\ ~IsUtf8(last.arg)
  /\ Len(last.arg) > 1
  /\ ~last.res.ok
  /\ NoParserCalled

\* what the encoder of a format emits for a value
Encoded(fmt, v) ==
  CASE fmt = "toml" -> toml_ser(v).out
    [] fmt = "json" -> serde_json_ser(v, FALSE).out
    [] OTHER -> rmp_ser(v).out

\* C10: to_<fmt>_file creates or truncates the path before it encodes and cleans
\* nothing up: when the encoding or the write fails after that, the file exists, holds
\* only what the failed call wrote (nothing, for to_toml_file with a value that
\* cannot be encoded) and none of its previous content, and no other file changed.
C10_NoCleanup ==
  (FreeCall(FileWriteOps) /\ ~last.res.ok /\ ~OpenFailed) =>
    /\ last.trace[2] = "File::create"
    /\ fs[last.path].exists
    /\ \E n \in 0..Len(Encoded(FormatOf(last.op), last.arg)) :
         /\ fs[last.path].data = Prefix(Encoded(FormatOf(last.op), last.arg), n)
         /\ n < Len(Encoded(FormatOf(last.op), last.arg)) \/ last.res.err.cause.what = PathErr
    /\ (last.op = "to_toml_file" /\ last.res.err.cause.what = PathErr) =>
         fs[last.path].data = <<>>
    /\ \A p \in Paths \ {last.path} : fs[p] = last.pre[p]

\* to_toml_file of a value that cannot be encoded emptied a file that held content
C10_Witness ==
  /\ FreeCall({"to_toml_file"}) /\ ~last.res.ok
  /\ last.res.err.cause.what = PathErr
  /\ last.pre[last.path].exists /\ last.pre[last.path].data # <<>>
  /\ fs[last.path] = FileOf(<<>>)

====
